---- MODULE Spec2Model ----
(***************************************************************************)
(* The Battleship transaction family of sawtooth_battleship/txn_family.py: *)
(* BattleshipTransaction.is_valid / check_valid / apply against the        *)
(* key-value store the journal hands them.                                 *)
(*                                                                         *)
(* The journal processes one transaction at a time: it builds the          *)
(* transaction from its wire dictionary (minfo), calls is_valid(store) and *)
(* calls apply(store) when is_valid returned True.                         *)
(***************************************************************************)
EXTENDS Integers, Sequences, FiniteSets, TLC

VARIABLES
    store,    \* the KeyValueStore: game name -> game dictionary
    pc,       \* where the journal is with the transaction in hand
    txn,      \* the transaction in hand (wire dictionary, signer, signature)
    verdict,  \* how check_valid ended for the transaction in hand
    before,   \* history: the store as it was when the transaction arrived
    log,      \* history: the transactions applied so far, in order
    held,     \* the dictionary object that was stored under the transaction's
              \* name when it arrived, as a holder of a reference to it sees it
    main      \* the subscriber's main(): where it is and what it holds

vars == <<store, pc, txn, verdict, before, log, held, main>>

\* ------------------------------------------------------------------ bounds

\* Transactions applied in one run of Spec.
MaxLog == 4
\* Transactions applied in one run of SpecAny (which starts from any store).
AnySteps == 1

\* ------------------------------------------- subscriber/main.py: main()

\* Python's None, for an option value.
PyNone == "<None>"

\* The command line, by what argparse makes of it: -C/--connect absent,
\* given bare or given with an endpoint; -D/--database absent or given; the
\* number of -v; and whether argparse refuses the line (an unknown option).
ArgLines ==
    [connect : {"absent", "bare", "tcp://validator:4004"},
     database : {"absent", "dbname=supplychain"},
     verbose : {0, 1},
     refused : BOOLEAN]

\* What the world does when asked: whether Stream(...) and
\* psycopg2.connect(...) succeed, and how subscriber.start() ends.
Worlds ==
    [streamOpens : BOOLEAN,
     databaseOpens : BOOLEAN,
     startEnds : {"returns", "KeyboardInterrupt", "Exception"}]

\* parse_args: the namespace argparse returns. Its attributes are named after
\* the long options: connect, database, verbose.
parse_args(line) ==
    [connect |-> IF line.connect = "absent" THEN "tcp://localhost:4004"
                 ELSE IF line.connect = "bare" THEN PyNone
                 ELSE line.connect,
     database |-> IF line.database = "absent" THEN PyNone ELSE line.database,
     verbose |-> line.verbose]

NoOpts == <<>>

\* main()'s locals and what it did: the objects it holds (subscriber,
\* stream, connection; absent while None), the endpoint the stream was opened
\* on, whether subscriber.start() was called, the exception that ended the
\* try block, and the objects shut down or closed, in order.
MainState(at, line, world, opts, holds, endpoint, started, raised, released) ==
    [at |-> at, line |-> line, world |-> world, opts |-> opts, holds |-> holds,
     endpoint |-> endpoint, started |-> started, raised |-> raised,
     released |-> released]

NoLine == [connect |-> "absent", database |-> "absent", verbose |-> 0, refused |-> FALSE]
NoWorld == [streamOpens |-> FALSE, databaseOpens |-> FALSE, startEnds |-> "returns"]

\* main() is not running.
MainNotRun == MainState("off", NoLine, NoWorld, NoOpts, {}, PyNone, FALSE, "", <<>>)

\* main() is called.
MainCalled(line, world) ==
    MainState("called", line, world, NoOpts, {}, PyNone, FALSE, "", <<>>)

\* The try block of main(), lines 60-78, up to the statement that raises or
\* to its end: stream = Stream(opts.endpoint), connection =
\* psycopg2.connect(opts.database), subscriber = Subscriber(stream,
\* connection), the log configuration (which changes none of main()'s
\* locals), subscriber.start().
TryBlock(m) ==
    IF "endpoint" \notin DOMAIN m.opts
      THEN [m EXCEPT !.raised = "AttributeError"]
    ELSE IF ~m.world.streamOpens
      THEN [m EXCEPT !.raised = "Exception"]
    ELSE IF ~m.world.databaseOpens
      THEN [m EXCEPT !.holds = {"stream"}, !.endpoint = m.opts["endpoint"],
                     !.raised = "Exception"]
    ELSE [m EXCEPT !.holds = {"stream", "connection", "subscriber"},
                   !.endpoint = m.opts["endpoint"],
                   !.started = TRUE,
                   !.raised = IF m.world.startEnds = "returns" THEN ""
                              ELSE m.world.startEnds]

\* The finally block, lines 83-89: subscriber.shutdown(), stream.close(),
\* connection.close(), each only when the local is not None.
FinallyBlock(m) ==
    LET part(x) == IF x \in m.holds THEN <<x>> ELSE <<>>
    IN  part("subscriber") \o part("stream") \o part("connection")

\* ------------------------------------------------------------------ inputs

Signers == {"A", "B"}

\* Game names as Python strings: sequences of characters.
NameVals == {<<>>, <<"a">>, <<"a", "-">>, <<"a", "\n">>}

ActionVals == {"CREATE", "JOIN", "FIRE", "", "PASS"}

Columns == {"A", "B"}
Rows == {4}
Cells == Columns \X Rows

\* A board is the set of cells a ship covers: A4 is a ship cell, B4 is water.
Boards == {{<<"A", 4>>}}

NoDict == <<>>

\* The wire dictionary's 'Name' part: absent, or one of NameVals.
MinfoName == {NoDict} \cup {[Name |-> n] : n \in NameVals}

\* The wire dictionary's 'Action' part with the fields that go with the
\* action ('Board' for JOIN, 'Column' and 'Row' for FIRE), each also left out.
MinfoAction ==
    {NoDict}
      \cup {[Action |-> a] : a \in ActionVals}
      \cup {[Action |-> "JOIN", Board |-> b] : b \in Boards}
      \cup {[Action |-> "FIRE", Column |-> c, Row |-> r] : c \in Columns, r \in Rows}

Minfos == {n @@ a : n \in MinfoName, a \in MinfoAction}

\* A transaction as the journal holds it: the wire dictionary, the identity
\* its signature yields (OriginatorID) and whether the signature verifies.
Txns == [minfo : Minfos, OriginatorID : Signers, signed : BOOLEAN]

NoTxn == [minfo |-> NoDict, OriginatorID |-> "", signed |-> FALSE]

\* --------------------------------------------------- BattleshipTransaction

\* __init__: self._name = minfo['Name'] if 'Name' in minfo else None
NameIsNone(t) == "Name" \notin DOMAIN t.minfo
Name(t) == t.minfo["Name"]

\* __init__: self._action = minfo['Action'] if 'Action' in minfo else None
ActionIsNone(t) == "Action" \notin DOMAIN t.minfo
Action(t) == t.minfo["Action"]

Alnum ==
    {"a", "b", "c", "d", "e", "f", "g", "h", "i", "j", "k", "l", "m",
     "n", "o", "p", "q", "r", "s", "t", "u", "v", "w", "x", "y", "z",
     "A", "B", "C", "D", "E", "F", "G", "H", "I", "J", "K", "L", "M",
     "N", "O", "P", "Q", "R", "S", "T", "U", "V", "W", "X", "Y", "Z",
     "0", "1", "2", "3", "4", "5", "6", "7", "8", "9"}

\* re.match("^[a-zA-Z0-9]*$", name): letters and digits up to the end of the
\* string, where Python's $ also matches just before one final newline.
NameMatches(n) ==
    LET body == IF Len(n) > 0 /\ n[Len(n)] = "\n"
                THEN SubSeq(n, 1, Len(n) - 1)
                ELSE n
    IN  \A i \in 1..Len(body) : body[i] \in Alnum

\* How check_valid ends: it returns, raises BattleshipException(why), or
\* raises something else (a KeyError on a missing dictionary key).
Accept == [kind |-> "accept", why |-> ""]
Reject(why) == [kind |-> "reject", why |-> why]
Raise(exc) == [kind |-> "raise", why |-> exc]
NoVerdict == [kind |-> "none", why |-> ""]

\* CheckFire without its last branch: a state that is neither player's turn
\* and no win falls through to acceptance.
CheckFireFallsThrough(t, s) ==
    IF Name(t) \notin DOMAIN s THEN Reject("no such game")
    ELSE LET game == s[Name(t)] IN
        IF game["State"] \in {"P1-WIN", "P2-WIN"} THEN Reject("game complete")
        ELSE IF game["State"] = "P1-NEXT" /\ "Player1" \notin DOMAIN game
          THEN Raise("KeyError: Player1")
        ELSE IF game["State"] = "P1-NEXT" /\ game["Player1"] # t.OriginatorID
          THEN Reject("invalid player 1")
        ELSE IF game["State"] = "P2-NEXT" /\ "Player2" \notin DOMAIN game
          THEN Raise("KeyError: Player2")
        ELSE IF game["State"] = "P2-NEXT" /\ game["Player2"] # t.OriginatorID
          THEN Reject("invalid player 2")
        ELSE Accept

\* check_valid, the FIRE branch.
CheckFire(t, s) ==
    IF Name(t) \notin DOMAIN s THEN Reject("no such game")
    ELSE LET game == s[Name(t)] IN
      IF "State" \notin DOMAIN game THEN Raise("KeyError: State")
      ELSE LET state == game["State"] IN
        IF state \in {"P1-WIN", "P2-WIN"} THEN Reject("game complete")
        ELSE IF state = "P1-NEXT" THEN
               IF "Player1" \notin DOMAIN game THEN Raise("KeyError: Player1")
               ELSE IF game["Player1"] # t.OriginatorID
                    THEN Reject("invalid player 1")
                    ELSE Accept
        ELSE IF state = "P2-NEXT" THEN
               IF "Player2" \notin DOMAIN game THEN Raise("KeyError: Player2")
               ELSE IF game["Player2"] # t.OriginatorID
                    THEN Reject("invalid player 2")
                    ELSE Accept
        ELSE Reject("invalid state")

\* check_valid, the JOIN branch.
CheckJoin(t, s) ==
    IF Name(t) \notin DOMAIN s
    THEN Reject("Trying to join a game that does not exist")
    ELSE Accept

\* CheckCreate without its look-up of the name in the store.
CheckCreateNoLookup(t, s) ==
    IF ~NameMatches(Name(t)) THEN Reject("Only letters and numbers")
    ELSE Accept

\* check_valid, the CREATE branch.
CheckCreate(t, s) ==
    IF Name(t) \in DOMAIN s THEN Reject("game already exists")
    ELSE IF ~NameMatches(Name(t)) THEN Reject("Only letters and numbers")
    ELSE Accept

check_valid(t, s) ==
    IF ~t.signed THEN Reject("invalid transaction")
    ELSE IF NameIsNone(t) \/ Name(t) = <<>> THEN Reject("name not set")
    ELSE IF ActionIsNone(t) \/ Action(t) = "" THEN Reject("action not set")
    ELSE IF Action(t) = "CREATE" THEN CheckCreate(t, s)
    ELSE IF Action(t) = "JOIN" THEN CheckJoin(t, s)
    ELSE IF Action(t) = "FIRE" THEN CheckFire(t, s)
    ELSE Reject("invalid action")

\* store[name] = game
Put(s, name, game) ==
    [n \in DOMAIN s \cup {name} |-> IF n = name THEN game ELSE s[n]]

\* A check_valid that enters the name it looks up into the store (as a
\* look-up with store.setdefault would).
StoreAfterCheckEnters(t, s) ==
    IF NameIsNone(t) \/ Name(t) \in DOMAIN s THEN s
    ELSE Put(s, Name(t), [State |-> "NEW"])

\* The store check_valid leaves behind: it only reads the store.
StoreAfterCheck(t, s) == s

\* ApplyCreate that stores the game as already under way.
ApplyCreateUnderWay(t, s) == Put(s, Name(t), [State |-> "P1-NEXT"])

\* apply, the CREATE branch.
ApplyCreate(t, s) == Put(s, Name(t), [State |-> "NEW"])

\* ApplyJoin that seats the signer as Player1, whoever sits there.
ApplyJoinTakesSeat(t, s) ==
    LET game == ("Player1" :> t.OriginatorID)
                  @@ [s[Name(t)] EXCEPT !["State"] = "P1-NEXT"]
    IN  Put(s, Name(t), game)

\* apply, the JOIN branch.
ApplyJoin(t, s) ==
    LET game == [s[Name(t)] EXCEPT !["State"] = "P1-NEXT"]
    IN  Put(s, Name(t), game)

\* ApplyFire that writes the copy back without passing the turn.
ApplyFireKeepsTurn(t, s) == Put(s, Name(t), s[Name(t)])

\* apply, the FIRE branch.
ApplyFire(t, s) ==
    LET old == s[Name(t)]
        game == IF old["State"] = "P1-NEXT"
                  THEN [old EXCEPT !["State"] = "P2-NEXT"]
                ELSE IF old["State"] = "P2-NEXT"
                  THEN [old EXCEPT !["State"] = "P1-NEXT"]
                ELSE old
    IN  Put(s, Name(t), game)

\* apply. Any other action raises before the store is written; the journal
\* never calls apply on a transaction is_valid refused.
apply(t, s) ==
    IF ActionIsNone(t) THEN s
    ELSE IF Action(t) = "CREATE" THEN ApplyCreate(t, s)
    ELSE IF Action(t) = "JOIN" THEN ApplyJoin(t, s)
    ELSE IF Action(t) = "FIRE" THEN ApplyFire(t, s)
    ELSE s

\* The transaction gives a name that is a key of store s.
NamesGame(t, s) == ~NameIsNone(t) /\ Name(t) \in DOMAIN s

\* The transaction's action is a.
Does(t, a) == ~ActionIsNone(t) /\ Action(t) = a

\* apply that assigns into the stored dictionary itself, without the copy.
HeldAfterApplyInPlace(t, s, h) ==
    IF Does(t, "JOIN") \/ Does(t, "FIRE") THEN apply(t, s)[Name(t)] ELSE h

\* What apply does to the dictionary object h that was stored under the
\* name: nothing. JOIN and FIRE assign into store[name].copy() and store the
\* copy; CREATE stores a new dictionary.
HeldAfterApply(t, s, h) == h

\* ----------------------------------------------------------------- journal

EmptyStore == <<>>

Init ==
    /\ store = EmptyStore
    /\ pc = "idle"
    /\ txn = NoTxn
    /\ verdict = NoVerdict
    /\ before = EmptyStore
    /\ log = <<>>
    /\ held = NoDict
    /\ main = MainNotRun

\* A transaction arrives.
Arrive(t) ==
    /\ pc = "idle"
    /\ txn' = t
    /\ before' = store
    /\ held' = IF NamesGame(t, store) THEN store[Name(t)] ELSE NoDict
    /\ pc' = "validate"
    /\ UNCHANGED <<store, verdict, log, main>>

Submit(t) ==
    /\ Len(log) < MaxLog
    /\ Arrive(t)

\* is_valid(store): check_valid, with BattleshipException caught into False.
IsValid ==
    /\ pc = "validate"
    /\ verdict' = check_valid(txn, store)
    /\ store' = StoreAfterCheck(txn, store)
    /\ pc' = "validated"
    /\ UNCHANGED <<txn, before, log, held, main>>

\* apply(store), called when is_valid returned True.
Apply ==
    /\ pc = "validated"
    /\ verdict.kind = "accept"
    /\ store' = apply(txn, store)
    /\ held' = HeldAfterApply(txn, store, held)
    /\ log' = Append(log, txn)
    /\ pc' = "applied"
    /\ UNCHANGED <<txn, verdict, before, main>>

\* The journal is done with the transaction: it was applied, or is_valid
\* returned False or raised and the transaction is dropped.
Return ==
    /\ \/ pc = "applied"
       \/ pc = "validated" /\ verdict.kind # "accept"
    /\ pc' = "idle"
    /\ txn' = NoTxn
    /\ verdict' = NoVerdict
    /\ before' = EmptyStore
    /\ held' = NoDict
    /\ UNCHANGED <<store, log, main>>

Next ==
    \/ \E t \in Txns : Submit(t)
    \/ IsValid
    \/ Apply
    \/ Return

Spec == Init /\ [][Next]_vars

\* ------------------------------------------- the store as an argument

\* is_valid and apply take the store as an argument; the journal owns it.
\* The game dictionaries below are the ones the comments of apply describe
\* (Player1/Board1 set by the first JOIN, Player2/Board2 by the second,
\* TargetBoard1/TargetBoard2 kept per attacker), next to the bare
\* {'State': ...} dictionaries apply writes.
States == {"NEW", "P1-NEXT", "P2-NEXT", "P1-WIN", "P2-WIN"}

\* What an attacker knows of the defender's board after firing at `fired`.
Target(fired, defender) ==
    [c \in Cells |-> IF c \notin fired THEN "?"
                     ELSE IF c \in defender THEN "hit" ELSE "miss"]

BareGames == {[State |-> st] : st \in States}

JoinedOnceGames ==
    {[State |-> "NEW", Player1 |-> p, Board1 |-> b] : p \in Signers, b \in Boards}

FullGames ==
    {[State |-> st, Player1 |-> p1, Player2 |-> p2, Board1 |-> b1, Board2 |-> b2,
      TargetBoard1 |-> Target(f1, b2), TargetBoard2 |-> Target(f2, b1)] :
        st \in States \ {"NEW"}, p1 \in Signers, p2 \in Signers,
        b1 \in Boards, b2 \in Boards, f1 \in SUBSET Cells, f2 \in SUBSET Cells}

AnyGames ==
    BareGames \cup JoinedOnceGames \cup {g \in FullGames : g.Player1 # g.Player2}

\* The names a game can be stored under.
StoreNames == {n \in NameVals : n # <<>> /\ NameMatches(n)}

\* The stores handed to is_valid: empty, or holding one game.
AnyStores ==
    {EmptyStore} \cup {Put(EmptyStore, n, g) : n \in StoreNames, g \in AnyGames}

InitAny ==
    /\ store \in AnyStores
    /\ pc = "idle"
    /\ txn = NoTxn
    /\ verdict = NoVerdict
    /\ before = EmptyStore
    /\ log = <<>>
    /\ held = NoDict
    /\ main = MainNotRun

SubmitAny(t) ==
    /\ Len(log) < AnySteps
    /\ Arrive(t)

NextAny ==
    \/ \E t \in Txns : SubmitAny(t)
    \/ IsValid
    \/ Apply
    \/ Return

SpecAny == InitAny /\ [][NextAny]_vars

\* A game under way, as the comments of apply describe the store after two
\* JOINs: A against B, A to fire, nothing fired yet.
PlayName == <<"a">>

PlayGame ==
    [State |-> "P1-NEXT", Player1 |-> "A", Player2 |-> "B",
     Board1 |-> {<<"A", 4>>}, Board2 |-> {<<"A", 4>>},
     TargetBoard1 |-> Target({}, {<<"A", 4>>}),
     TargetBoard2 |-> Target({}, {<<"A", 4>>})]

\* The signed FIRE transactions on that game that carry a cell.
PlayTxns ==
    {t \in Txns :
        /\ t.signed
        /\ t.minfo \in {[Name |-> PlayName, Action |-> "FIRE", Column |-> c, Row |-> r] :
                           c \in Columns, r \in Rows}}

InitPlay ==
    /\ store = Put(EmptyStore, PlayName, PlayGame)
    /\ pc = "idle"
    /\ txn = NoTxn
    /\ verdict = NoVerdict
    /\ before = EmptyStore
    /\ log = <<>>
    /\ held = NoDict
    /\ main = MainNotRun

NextPlay ==
    \/ \E t \in PlayTxns : Submit(t)
    \/ IsValid
    \/ Apply
    \/ Return

SpecPlay == InitPlay /\ [][NextPlay]_vars

\* ------------------------------------------------- running main()

\* The transaction family's variables.
familyVars == <<store, pc, txn, verdict, before, log, held>>

InitMain ==
    /\ store = EmptyStore
    /\ pc = "idle"
    /\ txn = NoTxn
    /\ verdict = NoVerdict
    /\ before = EmptyStore
    /\ log = <<>>
    /\ held = NoDict
    /\ main \in {MainCalled(line, world) : line \in ArgLines, world \in Worlds}

\* opts = parse_args(args), line 54: argparse ends the process (SystemExit)
\* on a line it refuses, before the try block is entered.
MainParse ==
    /\ main.at = "called"
    /\ main' = IF main.line.refused
                 THEN [main EXCEPT !.at = "exited", !.raised = "SystemExit"]
                 ELSE [main EXCEPT !.at = "parsed", !.opts = parse_args(main.line)]
    /\ UNCHANGED familyVars

\* The try block with its except clauses, lines 60-82: KeyboardInterrupt is
\* passed over, any other Exception is printed.
MainTry ==
    /\ main.at = "parsed"
    /\ main' = [TryBlock(main) EXCEPT !.at = "finally"]
    /\ UNCHANGED familyVars

\* The finally block, then main() returns.
MainFinally ==
    /\ main.at = "finally"
    /\ main' = [main EXCEPT !.at = "exited", !.released = FinallyBlock(main)]
    /\ UNCHANGED familyVars

NextMain ==
    \/ MainParse
    \/ MainTry
    \/ MainFinally

SpecMain == InitMain /\ [][NextMain]_vars

\* ------------------------------------------------------------- properties

\* The transaction carries a cell to fire at.
HasCell(t) == {"Column", "Row"} \subseteq DOMAIN t.minfo
CellOf(t) == <<t.minfo["Column"], t.minfo["Row"]>>

\* The applied transactions that name game n, in order.
GameLog(n) == SelectSeq(log, LAMBDA t : Name(t) = n)

\* How many applied transactions with action a name game n.
CountOf(n, a) ==
    Cardinality({i \in 1..Len(log) : Name(log[i]) = n /\ Does(log[i], a)})

\* The slot of the player whose turn it is in state st.
TurnSlot(st) == IF st = "P1-NEXT" THEN "Player1" ELSE "Player2"

\* C1: turn enforcement. A FIRE on a game in P1-NEXT (P2-NEXT) is accepted
\* only if its signer is the game's Player1 (Player2); a FIRE by anyone else
\* ends in a typed rejection, and the store is as it was.
C1_TurnEnforcement ==
    (/\ pc = "validated"
     /\ txn.signed
     /\ Does(txn, "FIRE")
     /\ NamesGame(txn, before)
     /\ before[Name(txn)]["State"] \in {"P1-NEXT", "P2-NEXT"})
    => LET game == before[Name(txn)]
           slot == TurnSlot(game["State"])
           inTurn == slot \in DOMAIN game /\ game[slot] = txn.OriginatorID
       IN  /\ verdict.kind = "accept" => inTurn
           /\ ~inTurn => verdict.kind = "reject"
           /\ store = before

C3_JoinOnlyWhenNew ==
    (pc = "validated" /\ Does(txn, "JOIN"))
    => /\ verdict.kind = "accept" =>
            NamesGame(txn, before) /\ before[Name(txn)]["State"] = "NEW"
       /\ (NamesGame(txn, before) /\ before[Name(txn)]["State"] # "NEW") =>
            verdict.kind = "reject" /\ store = before

\* C4: JOIN state progression. After the first applied JOIN a game is still
\* NEW; after the second it is P1-NEXT; a game is P1-NEXT only after two
\* applied JOINs.
C4_JoinProgression ==
    \A n \in DOMAIN store :
        /\ (CountOf(n, "JOIN") = 1 /\ CountOf(n, "FIRE") = 0) =>
               store[n]["State"] = "NEW"
        /\ (CountOf(n, "JOIN") = 2 /\ CountOf(n, "FIRE") = 0) =>
               store[n]["State"] = "P1-NEXT"
        /\ store[n]["State"] = "P1-NEXT" => CountOf(n, "JOIN") >= 2

\* The cells of a target board already marked hit.
HitsOn(target) == {c \in Cells : target[c] = "hit"}

C7_NoUncontrolledFailure ==
    pc = "validated" => verdict.kind \in {"accept", "reject"}

\* C8: duplicate CREATE. A CREATE whose name is in the store is rejected,
\* as 'game already exists' when it gets as far as the CREATE rules, whoever
\* signs it and whatever the game's state; the store is as it was, and no
\* applied CREATE ever names an existing game.
C8_DuplicateCreate ==
    /\ (pc = "validated" /\ Does(txn, "CREATE") /\ NamesGame(txn, before))
       => /\ verdict.kind = "reject"
          /\ txn.signed => verdict.why = "game already exists"
          /\ store = before
    /\ (pc = "applied" /\ Does(txn, "CREATE")) => Name(txn) \notin DOMAIN before

\* C8's case: a signed CREATE naming a game that has moved on to P1-NEXT was
\* validated.
C8_Witness ==
    /\ pc = "validated"
    /\ txn.signed
    /\ Does(txn, "CREATE")
    /\ NamesGame(txn, before)
    /\ before[Name(txn)]["State"] = "P1-NEXT"
    /\ verdict = Reject("game already exists")

\* C9: end to end. CREATE, JOIN by A, JOIN by B (A # B) leaves the game
\* P1-NEXT with Player1 = A and Player2 = B; a FIRE by A is then accepted,
\* and fired at a cell that is water on B's board it leaves the game
\* P2-NEXT with that cell marked miss on TargetBoard1.
C9_EndToEnd ==
    \A n \in DOMAIN store :
      LET h == GameLog(n)
          game == store[n]
          joined == /\ Len(h) >= 3
                    /\ Does(h[1], "CREATE")
                    /\ Does(h[2], "JOIN")
                    /\ Does(h[3], "JOIN")
                    /\ h[2].OriginatorID # h[3].OriginatorID
      IN  /\ (joined /\ Len(h) = 3) =>
                /\ game["State"] = "P1-NEXT"
                /\ "Player1" \in DOMAIN game /\ game["Player1"] = h[2].OriginatorID
                /\ "Player2" \in DOMAIN game /\ game["Player2"] = h[3].OriginatorID
          /\ (/\ joined /\ Len(h) = 3
              /\ pc = "validated" /\ txn.signed /\ Does(txn, "FIRE")
              /\ NamesGame(txn, store) /\ Name(txn) = n
              /\ txn.OriginatorID = h[2].OriginatorID) =>
                verdict.kind = "accept"
          /\ (/\ joined /\ Len(h) = 4
              /\ Does(h[4], "FIRE") /\ HasCell(h[4])
              /\ h[4].OriginatorID = h[2].OriginatorID
              /\ "Board" \in DOMAIN h[3].minfo
              /\ CellOf(h[4]) \notin h[3].minfo["Board"]) =>
                /\ game["State"] = "P2-NEXT"
                /\ "TargetBoard1" \in DOMAIN game
                /\ game["TargetBoard1"][CellOf(h[4])] = "miss"

C11_FireNeedsActiveGame ==
    (pc = "validated" /\ Does(txn, "FIRE"))
    => /\ (~NamesGame(txn, before) \/ before[Name(txn)]["State"] = "NEW") =>
              verdict.kind = "reject" /\ store = before
       /\ verdict.kind = "accept" =>
              /\ NamesGame(txn, before)
              /\ before[Name(txn)]["State"] \in {"P1-NEXT", "P2-NEXT"}

\* C11's case: a signed FIRE on a game that is still NEW was refused for the
\* game's state.
C11_Witness ==
    /\ pc = "validated"
    /\ txn.signed
    /\ Does(txn, "FIRE")
    /\ NamesGame(txn, before)
    /\ before[Name(txn)]["State"] = "NEW"
    /\ verdict = Reject("invalid state")
    /\ store = before

\* The transaction lacks a field its action needs: 'Board' for JOIN,
\* 'Column' and 'Row' for FIRE.
LacksField(t) ==
    \/ Does(t, "JOIN") /\ "Board" \notin DOMAIN t.minfo
    \/ Does(t, "FIRE") /\ ~HasCell(t)

\* The transaction's record is malformed: no or empty Name, no, empty or
\* unknown Action, or a field of its action missing.
Malformed(t) ==
    \/ NameIsNone(t)
    \/ Name(t) = <<>>
    \/ ActionIsNone(t)
    \/ Action(t) \notin {"CREATE", "JOIN", "FIRE"}
    \/ LacksField(t)

\* C12: structural rejection. A malformed transaction is rejected by
\* validation with a typed rejection, is never applied, and the store is as
\* it was.
C12_StructuralRejection ==
    /\ (pc = "validated" /\ Malformed(txn)) =>
           verdict.kind = "reject" /\ store = before
    /\ pc = "applied" => ~Malformed(txn)

\* The signer of t already plays in game n of store s: the record names it
\* as Player1 or Player2, or a JOIN it signed for n has been applied.
AlreadyPlays(t, n, s) ==
    \/ "Player1" \in DOMAIN s[n] /\ s[n]["Player1"] = t.OriginatorID
    \/ "Player2" \in DOMAIN s[n] /\ s[n]["Player2"] = t.OriginatorID
    \/ \E i \in 1..Len(log) :
           /\ Does(log[i], "JOIN")
           /\ Name(log[i]) = n
           /\ log[i].OriginatorID = t.OriginatorID

\* C13: distinct players. A JOIN whose signer already plays in the named
\* game is rejected, and a game with both players set has two different
\* players.
C13_DistinctPlayers ==
    /\ (pc = "validated" /\ Does(txn, "JOIN") /\ NamesGame(txn, before)
          /\ AlreadyPlays(txn, Name(txn), before)) =>
            verdict.kind = "reject"
    /\ \A n \in DOMAIN store :
          {"Player1", "Player2"} \subseteq DOMAIN store[n] =>
              store[n]["Player1"] # store[n]["Player2"]

\* Applied transactions i and j are FIREs on one game by one signer.
SameFirer(i, j) ==
    /\ Does(log[i], "FIRE") /\ Does(log[j], "FIRE")
    /\ Name(log[i]) = Name(log[j])
    /\ log[i].OriginatorID = log[j].OriginatorID

StateIn(s, n) == IF n \in DOMAIN s THEN s[n]["State"] ELSE "absent"

\* The changes of state the transition table allows, with the action and,
\* for a JOIN, the number of JOINs applied to the game so far.
LegalChange(from, to, action, joins) ==
    \/ from = "absent" /\ to = "NEW" /\ action = "CREATE"
    \/ from = "NEW" /\ to = "P1-NEXT" /\ action = "JOIN" /\ joins = 2
    \/ from = "P1-NEXT" /\ to \in {"P2-NEXT", "P1-WIN"} /\ action = "FIRE"
    \/ from = "P2-NEXT" /\ to \in {"P1-NEXT", "P2-WIN"} /\ action = "FIRE"

\* C15: legal transitions only. Every game's state is one of the five, and
\* every change of a game's state is a row of the transition table, made by
\* that row's action; nothing else changes a state.
C15_LegalTransitions ==
    /\ \A n \in DOMAIN store : store[n]["State"] \in States
    /\ \A n \in DOMAIN store \cup DOMAIN before :
          (pc \in {"validated", "applied"} /\ StateIn(store, n) # StateIn(before, n)) =>
              /\ pc = "applied"
              /\ n = Name(txn)
              /\ LegalChange(StateIn(before, n), StateIn(store, n),
                             Action(txn), CountOf(n, "JOIN"))

\* Every character of name n is a letter or a digit.
Alphanumeric(n) == \A i \in 1..Len(n) : n[i] \in Alnum

\* C17: CREATE result. A CREATE with a non-empty alphanumeric name that is
\* not in the store is accepted; applied, it stores under the name a record
\* with State NEW and nothing else (no player, no board); while no other
\* transaction on that name is applied, the record stays so.
C17_CreateResult ==
    /\ (/\ pc = "validated" /\ txn.signed /\ Does(txn, "CREATE")
        /\ ~NameIsNone(txn) /\ Name(txn) # <<>> /\ Alphanumeric(Name(txn))
        /\ Name(txn) \notin DOMAIN before) =>
            verdict.kind = "accept"
    /\ (pc = "applied" /\ Does(txn, "CREATE")) =>
            store[Name(txn)] = [State |-> "NEW"]
    /\ \A n \in DOMAIN store :
          (Len(GameLog(n)) = 1 /\ Does(GameLog(n)[1], "CREATE")) =>
              store[n] = [State |-> "NEW"]

\* C17's case: a game was created and has stayed NEW while three
\* transactions on another game were applied.
C17_Witness ==
    \E n \in DOMAIN store :
        /\ Len(GameLog(n)) = 1
        /\ Does(log[1], "CREATE") /\ Name(log[1]) = n
        /\ Len(log) = 4
        /\ store[n] = [State |-> "NEW"]

Range(q) == {q[i] : i \in 1..Len(q)}

\* C20: subscriber start-up and shutdown. When the command line parses and
\* the stream and the database can be opened, main() has, by the time it
\* exits, opened the Stream on the endpoint given with -C (by default
\* tcp://localhost:4004), connected to the database and called
\* subscriber.start(); and on every exit the objects shut down or closed are
\* exactly the ones that were created.
C20_SubscriberMain ==
    main.at = "exited" =>
        /\ (/\ ~main.line.refused
            /\ main.world.streamOpens
            /\ main.world.databaseOpens) =>
                /\ main.endpoint = parse_args(main.line).connect
                /\ "connection" \in main.holds
                /\ main.started
        /\ Range(main.released) = main.holds
        /\ Len(main.released) = Cardinality(main.holds)

====
